---- MODULE Spec2Model ----
(***************************************************************************)
(* The `read` builtin of osh/builtin_misc.py: the field assembler          *)
(* _AppendParts, the byte-at-a-time line reader ReadLineFromStdin and      *)
(* Read.Run with its two modes (read -n N, and the delimited mode with     *)
(* its continuation loop).                                                 *)
(*                                                                         *)
(* A Python str is a sequence of one-character strings; the empty str is   *)
(* <<>>.  A span is the pair <<span_type, end_index>> of the source.       *)
(***************************************************************************)
EXTENDS Integers, Sequences, FiniteSets, TLC

\* ---- bounds of the model ----
\* longest stdin content
MaxStream == 3
\* largest byte count given to read -n
MaxN == 3
\* most destination names on the command line
MaxNames == 2
\* most spans handed to _AppendParts in one invocation (SpecAssemble)
MaxSpans == 4
\* longest text of one span (SpecAssemble)
MaxSpanLen == 1

\* ---- values ----
Bytes == {"a", ":", "\n"}
\* Python None where a str is expected: equal to no str read from the stream
None == <<"None">>
NUL == "NUL"
Black == "Black"
Delim == "Delim"
Backslash == "Backslash"
SpanKinds == {Black, Delim, Backslash}
ICANON == "ICANON"
ECHO == "ECHO"
AllNames == <<"v1", "v2", "v3", "v4">>
Letters == <<"a", "b", "c", "d", "e", "f", "g", "h", "i", "j", "k", "l", "m", "n">>

Min(a, b) == IF a <= b THEN a ELSE b

\* s[a:b] of Python for 0 <= a, 0 <= b
Slice(s, a, b) == SubSeq(s, a + 1, Min(b, Len(s)))

\* s[-1]
Last(s) == s[Len(s)]

\* s[:-1]
ButLast(s) == SubSeq(s, 1, Len(s) - 1)

RECURSIVE SeqsUpTo(_, _)
SeqsUpTo(S, n) ==
  IF n = 0 THEN {<<>>}
  ELSE LET shorter == SeqsUpTo(S, n - 1)
       IN  shorter \cup {Append(q, x) : q \in {r \in shorter : Len(r) = n - 1}, x \in S}

RECURSIVE SumLen(_)
SumLen(log) == IF log = <<>> THEN 0 ELSE Len(Last(log).got) + SumLen(ButLast(log))

\* ---- _AppendParts ----
\* The state of the loop over spans: parts (mutated in place by the source),
\* join_next, last_span_was_black, start_index; raised is the IndexError of
\* parts[-1] on an empty list.
LoopState(parts, join_next) ==
  [parts |-> parts, join_next |-> join_next, last_span_was_black |-> FALSE,
   start_index |-> 0, raised |-> FALSE]

\* parts[0] += text
JoinFirst(parts, text) == [parts EXCEPT ![1] = @ \o text]

\* parts[-1] += text
JoinLast(parts, text) == [parts EXCEPT ![Len(parts)] = @ \o text]

\* The Backslash branch with join_next set whatever the span before was
EscapeBranchAlways(st) == [st EXCEPT !.join_next = TRUE, !.last_span_was_black = FALSE]

\* The Backslash branch: nothing is appended; join_next is set after a Black span
EscapeBranch(st) ==
  IF st.last_span_was_black
  THEN [st EXCEPT !.join_next = TRUE, !.last_span_was_black = FALSE]
  ELSE [st EXCEPT !.last_span_was_black = FALSE]

\* The branch of the loop body taken for one span, before the cap.
SpanBranch(s, span, st) ==
  LET text == Slice(s, st.start_index, span[2])
  IN  CASE span[1] = Black ->
             IF st.join_next /\ st.parts # <<>>
             THEN [st EXCEPT !.parts = JoinLast(st.parts, text), !.join_next = FALSE,
                             !.last_span_was_black = TRUE]
             ELSE [st EXCEPT !.parts = Append(st.parts, text),
                             !.last_span_was_black = TRUE]
        [] span[1] = Delim ->
             IF st.join_next
             THEN IF st.parts = <<>>
                  THEN [st EXCEPT !.raised = TRUE]
                  ELSE [st EXCEPT !.parts = JoinLast(st.parts, text), !.join_next = FALSE,
                                  !.last_span_was_black = FALSE]
             ELSE [st EXCEPT !.last_span_was_black = FALSE]
        [] span[1] = Backslash -> EscapeBranch(st)

\* Cap without the test of max_results: the unbounded mode is capped at 0
CapUnbounded(max_results, st) ==
  IF Len(st.parts) >= max_results
  THEN [st EXCEPT !.join_next = TRUE]
  ELSE st

\* Cap with > for >=
CapStrict(max_results, st) ==
  IF max_results # 0 /\ Len(st.parts) > max_results
  THEN [st EXCEPT !.join_next = TRUE]
  ELSE st

\* if max_results and len(parts) >= max_results: join_next = True
Cap(max_results, st) ==
  IF max_results # 0 /\ Len(st.parts) >= max_results
  THEN [st EXCEPT !.join_next = TRUE]
  ELSE st

\* One iteration of the loop over spans.
AppendSpan(s, span, max_results, st) ==
  LET b == SpanBranch(s, span, st)
  IN  IF b.raised THEN b
      ELSE [Cap(max_results, b) EXCEPT !.start_index = span[2]]

\* done whatever the last span is
DoneAlways(spans) == TRUE

\* done, as computed after the loop
Done(spans) == ~(spans # <<>> /\ Last(spans)[1] = Backslash)

RECURSIVE AppendLoop(_, _, _, _)
AppendLoop(s, spans, max_results, st) ==
  IF spans = <<>> \/ st.raised THEN st
  ELSE AppendLoop(s, Tail(spans), max_results, AppendSpan(s, Head(spans), max_results, st))

\* The whole call: the final loop state with done.
AppendParts(s, spans, max_results, join_next, parts) ==
  LET st == AppendLoop(s, spans, max_results, LoopState(parts, join_next))
  IN  [done |-> Done(spans), join_next |-> st.join_next, parts |-> st.parts,
       raised |-> st.raised]


\* ---- the state of one invocation of Read.Run ----
VARIABLES
  arg,            \* parsed flags: n_given, n, r, a, d ("" for a: no array name)
  names,          \* cmd_val.argv[i:]
  stream, pos,    \* stdin: its content and the offset of the next unread byte
  isatty,         \* sys.stdin.isatty()
  tty,            \* the terminal's local-mode flags (attrs[3]) now in effect
  pc,             \* position in Run
  name, s, orig_attrs, attrs,                      \* locals of the -n branch
  max_results, delim_char, parts, join_next,       \* locals of the delimited branch
  chars,                                           \* local of ReadLineFromStdin
  line, spans, status,
  idx, start_index, last_span_was_black,           \* locals of _AppendParts
  exc,            \* an exception is propagating through the finally block
  mem_log,        \* the writes made to the variable store, in order
  read_log,       \* the posix.read calls made, in order
  pre,            \* history: the terminal flags, the -n count and the names before the call
  call_pos,       \* history: pos when the current ReadLineFromStdin call began
  hist            \* history: the lines handed to _AppendParts so far

vars == <<arg, names, stream, pos, isatty, tty, pc, name, s, orig_attrs, attrs,
          max_results, delim_char, parts, join_next, chars, line, spans, status,
          idx, start_index, last_span_was_black, exc, mem_log, read_log, pre,
          call_pos, hist>>

fixedLocals == <<name, s, orig_attrs, attrs>>
delimLocals == <<max_results, delim_char, parts, join_next, chars, line, spans>>
loopLocals == <<idx, start_index, last_span_was_black>>
io == <<stream, pos, read_log>>
cmd == <<names, isatty, pre>>

NameLists == {SubSeq(AllNames, 1, m) : m \in 0..MaxNames}
Streams == SeqsUpTo(Bytes, MaxStream)
LFlags == {{ICANON, ECHO}, {ECHO}}

\* posix.read(fd, n): at stream end the empty str, else between 1 and n of the
\* bytes that remain (a read may return fewer than asked).
ReadResults(str, p, n) ==
  IF p >= Len(str) THEN {<<>>}
  ELSE {SubSeq(str, p + 1, p + m) : m \in 1..Min(n, Len(str) - p)}

ReadEntry(n, buf, lflag) == [n |-> n, got |-> buf, lflag |-> lflag]

InitLocals ==
  /\ pc = "start"
  /\ name = "" /\ s = <<>> /\ orig_attrs = {} /\ attrs = {}
  /\ max_results = 0 /\ delim_char = None /\ parts = <<>> /\ join_next = FALSE
  /\ chars = <<>> /\ line = <<>> /\ spans = <<>> /\ status = -1
  /\ idx = 0 /\ start_index = 0 /\ last_span_was_black = FALSE
  /\ exc = FALSE /\ mem_log = <<>> /\ read_log = <<>>
  /\ pos = 0 /\ call_pos = 0 /\ hist = <<>>
  /\ pre = [tty |-> tty, n |-> arg.n, names |-> names]

\* read -n N [NAME...]
InitFixed ==
  /\ arg \in [n_given : {TRUE}, n : 0..MaxN, r : {FALSE}, a : {""}, d : {None}]
  /\ names \in NameLists
  /\ stream \in Streams
  /\ isatty \in BOOLEAN
  /\ tty \in LFlags
  /\ InitLocals

\* ---- Run, the -n branch (lines 192-225) ----
RunFixed ==
  /\ pc = "start" /\ arg.n_given
  /\ name' = IF names # <<>> THEN names[1] ELSE "REPLY"
  /\ s' = <<>>
  /\ pc' = IF isatty THEN "tcgetattr" ELSE "blockread"
  /\ UNCHANGED <<arg, tty, orig_attrs, attrs, delimLocals, loopLocals, status, exc,
                 mem_log, io, cmd, call_pos, hist>>

\* attrs left as read
RawAttrsKeep(lflag) == lflag

\* attrs[3] &= ~termios.ICANON
RawAttrs(lflag) == lflag \ {ICANON}

\* orig_attrs and attrs are read, and ICANON is cleared in attrs
TcGetAttr ==
  /\ pc = "tcgetattr"
  /\ orig_attrs' = tty
  /\ attrs' = RawAttrs(tty)
  /\ pc' = "tcsetattr"
  /\ UNCHANGED <<arg, tty, name, s, delimLocals, loopLocals, status, exc, mem_log, io,
                 cmd, call_pos, hist>>

\* tcgetattr raises, before the try block is entered
TcGetAttrFail ==
  /\ pc = "tcgetattr"
  /\ pc' = "raised"
  /\ UNCHANGED <<arg, tty, fixedLocals, delimLocals, loopLocals, status, exc, mem_log,
                 io, cmd, call_pos, hist>>

TcSetAttr ==
  /\ pc = "tcsetattr"
  /\ tty' = attrs
  /\ pc' = "ttyread"
  /\ UNCHANGED <<arg, fixedLocals, delimLocals, loopLocals, status, exc, mem_log, io,
                 cmd, call_pos, hist>>

\* tcsetattr raises inside the try block: the flags may or may not have been applied
TcSetAttrFail ==
  /\ pc = "tcsetattr"
  /\ tty' \in {tty, attrs}
  /\ exc' = TRUE
  /\ pc' = "finally"
  /\ UNCHANGED <<arg, fixedLocals, delimLocals, loopLocals, status, mem_log, io, cmd,
                 call_pos, hist>>

\* the size asked of one read in the terminal loop
TtyRequest(remaining) == 1

\* while arg.n > 0: s += posix.read(stdin, 1); arg.n -= 1
TtyRead ==
  /\ pc = "ttyread" /\ arg.n > 0
  /\ \E buf \in ReadResults(stream, pos, TtyRequest(arg.n)) :
       /\ s' = s \o buf
       /\ pos' = pos + Len(buf)
       /\ read_log' = Append(read_log, ReadEntry(TtyRequest(arg.n), buf, tty))
  /\ arg' = [arg EXCEPT !.n = @ - 1]
  /\ UNCHANGED <<tty, pc, name, orig_attrs, attrs, delimLocals, loopLocals, status, exc,
                 mem_log, stream, cmd, call_pos, hist>>

\* a single-byte read raises OSError
TtyReadFail ==
  /\ pc = "ttyread" /\ arg.n > 0
  /\ exc' = TRUE
  /\ pc' = "finally"
  /\ UNCHANGED <<arg, tty, fixedLocals, delimLocals, loopLocals, status, mem_log, io,
                 cmd, call_pos, hist>>

TtyReadEnd ==
  /\ pc = "ttyread" /\ arg.n <= 0
  /\ pc' = "finally"
  /\ UNCHANGED <<arg, tty, fixedLocals, delimLocals, loopLocals, status, exc, mem_log,
                 io, cmd, call_pos, hist>>

\* FinallyRestore without the restoring call
NoRestore(cur, orig) == cur

\* what the finally block leaves in effect: termios.tcsetattr(stdin, TCSANOW, orig_attrs)
FinallyRestore(cur, orig) == orig

TcRestore ==
  /\ pc = "finally"
  /\ tty' = FinallyRestore(tty, orig_attrs)
  /\ pc' = IF exc THEN "raised" ELSE "setlocal"
  /\ UNCHANGED <<arg, fixedLocals, delimLocals, loopLocals, status, exc, mem_log, io,
                 cmd, call_pos, hist>>

\* BlockRequest asking for one byte more than remains to be read
BlockRequestOver(remaining) == remaining + 1

\* the size asked of one block read: posix.read(stdin, arg.n)
BlockRequest(remaining) == remaining

BlockRead ==
  /\ pc = "blockread" /\ arg.n > 0
  /\ \E buf \in ReadResults(stream, pos, BlockRequest(arg.n)) :
       /\ read_log' = Append(read_log, ReadEntry(BlockRequest(arg.n), buf, tty))
       /\ pos' = pos + Len(buf)
       /\ IF buf = <<>>
          THEN /\ pc' = "setlocal"
               /\ UNCHANGED <<arg, s>>
          ELSE /\ arg' = [arg EXCEPT !.n = @ - Len(buf)]
               /\ s' = s \o buf
               /\ UNCHANGED pc
  /\ UNCHANGED <<tty, name, orig_attrs, attrs, delimLocals, loopLocals, status, exc,
                 mem_log, stream, cmd, call_pos, hist>>

BlockReadFail ==
  /\ pc = "blockread" /\ arg.n > 0
  /\ pc' = "raised"
  /\ UNCHANGED <<arg, tty, fixedLocals, delimLocals, loopLocals, status, exc, mem_log,
                 io, cmd, call_pos, hist>>

BlockReadEnd ==
  /\ pc = "blockread" /\ arg.n <= 0
  /\ pc' = "setlocal"
  /\ UNCHANGED <<arg, tty, fixedLocals, delimLocals, loopLocals, status, exc, mem_log,
                 io, cmd, call_pos, hist>>

WriteEntry(op, var, value) == [op |-> op, name |-> var, value |-> value]

\* state.SetLocalString(self.mem, name, s); return 0
SetLocal ==
  /\ pc = "setlocal"
  /\ mem_log' = Append(mem_log, WriteEntry("SetLocalString", name, s))
  /\ status' = 0
  /\ pc' = "done"
  /\ UNCHANGED <<arg, tty, fixedLocals, delimLocals, loopLocals, exc, io, cmd, call_pos,
                 hist>>

NextFixed ==
  \/ RunFixed
  \/ TcGetAttr \/ TcGetAttrFail
  \/ TcSetAttr \/ TcSetAttrFail
  \/ TtyRead \/ TtyReadFail \/ TtyReadEnd
  \/ TcRestore
  \/ BlockRead \/ BlockReadFail \/ BlockReadEnd
  \/ SetLocal

SpecFixed == InitFixed /\ [][NextFixed]_vars


\* ---- the Span Classifier (splitter.SplitForRead; its source is not part of ----
\* ---- this module: any ordered typed spans that cover the line)             ----
RECURSIVE SpansOver(_, _, _)
SpansOver(from, n, kinds) ==
  IF from >= n THEN {<<>>}
  ELSE UNION {{<<(<<k, e>>)>> \o rest : rest \in SpansOver(e, n, kinds)} :
                k \in kinds, e \in (from + 1)..n}

SplitForRead(str, allow_escape) ==
  SpansOver(0, Len(str), IF allow_escape THEN SpanKinds ELSE {Black, Delim})

\* ---- Run, the delimited branch (lines 227-280) ----
\* read [-r] [-a ARRAY] [-d DELIM] [NAME...]
InitDelim ==
  /\ arg \in [n_given : {FALSE}, n : {0}, r : BOOLEAN, a : {"", "arr"},
              d : {None, <<":">>, <<>>}]
  /\ names \in NameLists
  /\ stream \in Streams
  /\ isatty \in BOOLEAN
  /\ tty = {ICANON, ECHO}
  /\ InitLocals

\* if not names: names.append('REPLY')
DefaultNames(ns) == IF ns = <<>> THEN <<"REPLY">> ELSE ns

\* max_results as the number of names whatever the destination
MaxResultsNames(a, ns) == Len(ns)

\* max_results: 0 with -a, else len(names)
MaxResults(a, ns) == IF a # "" THEN 0 ELSE Len(ns)

\* delim_char: arg.d[0], NUL for -d '', None without -d
DelimChar(d) ==
  IF d # None THEN (IF Len(d) > 0 THEN <<d[1]>> ELSE <<NUL>>) ELSE None

RunDelimited ==
  /\ pc = "start" /\ ~arg.n_given
  /\ names' = DefaultNames(names)
  /\ max_results' = MaxResults(arg.a, names')
  /\ delim_char' = DelimChar(arg.d)
  /\ parts' = <<>>
  /\ join_next' = FALSE
  /\ chars' = <<>>
  /\ call_pos' = pos
  /\ pc' = "readline"
  /\ UNCHANGED <<arg, tty, fixedLocals, line, spans, loopLocals, status, exc, mem_log,
                 io, isatty, pre, hist>>

\* LineRequest asking for two bytes
LineRequestTwo == 1 + 1

\* the size asked of one read by ReadLineFromStdin: posix.read(0, 1)
LineRequest == 1

\* LineStep without the break on the empty read
LineStepNoEof(cs, c, dc) ==
  IF c # <<>> /\ c = dc THEN [chars |-> cs, stop |-> TRUE]
  ELSE [chars |-> cs \o c, stop |-> (c = <<"\n">>)]

\* One iteration of ReadLineFromStdin's loop on the str c just read: the chars
\* kept and whether the loop breaks.
LineStep(cs, c, dc) ==
  IF c = <<>> THEN [chars |-> cs, stop |-> TRUE]
  ELSE IF c = dc THEN [chars |-> cs, stop |-> TRUE]
  ELSE [chars |-> cs \o c, stop |-> (c = <<"\n">>)]

ReadByte ==
  /\ pc = "readline"
  /\ \E c \in ReadResults(stream, pos, LineRequest) :
       LET r == LineStep(chars, c, delim_char)
       IN  /\ read_log' = Append(read_log, ReadEntry(LineRequest, c, tty))
           /\ pos' = pos + Len(c)
           /\ chars' = r.chars
           /\ IF r.stop
              THEN line' = r.chars /\ pc' = "gotline"
              ELSE UNCHANGED <<line, pc>>
  /\ UNCHANGED <<arg, tty, fixedLocals, max_results, delim_char, parts, join_next,
                 spans, loopLocals, status, exc, mem_log, stream, cmd, call_pos, hist>>

\* posix.read raises OSError: it propagates out of Run
ReadFail ==
  /\ pc = "readline"
  /\ pc' = "raised"
  /\ UNCHANGED <<arg, tty, fixedLocals, delimLocals, loopLocals, status, exc, mem_log,
                 io, cmd, call_pos, hist>>

\* EofStatus left at what the previous line set
EofStatusStale == status

\* status = 1 when ReadLineFromStdin returns the empty str
EofStatus == 1

EndsWithNewline(str) == str # <<>> /\ Last(str) = "\n"

\* line[:-1] when the line ends with a newline
StripNewline(str) == IF EndsWithNewline(str) THEN ButLast(str) ELSE str

\* the status of a non-empty line
LineStatus(str) == IF EndsWithNewline(str) THEN 0 ELSE 1

HistEntry(str, sp, st) == [line |-> str, spans |-> sp, status |-> st]

\* lines 251-263, up to the entry of _AppendParts
ProcessLine ==
  /\ pc = "gotline"
  /\ IF line = <<>>
     THEN /\ status' = EofStatus
          /\ pc' = "bind"
          /\ UNCHANGED <<line, spans, loopLocals, hist>>
     ELSE /\ status' = LineStatus(line)
          /\ line' = StripNewline(line)
          /\ \E sp \in SplitForRead(line', ~arg.r) : spans' = sp
          /\ idx' = 0
          /\ start_index' = 0
          /\ last_span_was_black' = FALSE
          /\ hist' = Append(hist, HistEntry(line', spans', status'))
          /\ pc' = "append"
  /\ UNCHANGED <<arg, tty, fixedLocals, max_results, delim_char, parts, join_next,
                 chars, exc, mem_log, io, cmd, call_pos>>

\* one iteration of _AppendParts' loop, on spans[idx]
AppendStep ==
  /\ pc = "append" /\ idx < Len(spans)
  /\ LET st == AppendSpan(line, spans[idx + 1], max_results,
                          [parts |-> parts, join_next |-> join_next,
                           last_span_was_black |-> last_span_was_black,
                           start_index |-> start_index, raised |-> FALSE])
     IN  IF st.raised
         THEN /\ pc' = "raised"
              /\ UNCHANGED <<parts, join_next, loopLocals>>
         ELSE /\ parts' = st.parts
              /\ join_next' = st.join_next
              /\ last_span_was_black' = st.last_span_was_black
              /\ start_index' = st.start_index
              /\ idx' = idx + 1
              /\ UNCHANGED pc
  /\ UNCHANGED <<arg, tty, fixedLocals, max_results, delim_char, chars, line, spans,
                 status, exc, mem_log, io, cmd, call_pos, hist>>

\* _AppendParts returns (done, join_next); Run leaves its loop or reads on
AppendReturn ==
  /\ pc = "append" /\ idx = Len(spans)
  /\ IF Done(spans)
     THEN /\ pc' = "bind"
          /\ UNCHANGED <<chars, call_pos>>
     ELSE /\ pc' = "readline"
          /\ chars' = <<>>
          /\ call_pos' = pos
  /\ UNCHANGED <<arg, tty, fixedLocals, max_results, delim_char, parts, join_next,
                 line, spans, loopLocals, status, exc, mem_log, io, cmd, hist>>

\* parts[i], or '' on IndexError (i counts from 1 here)
BindValue(ps, i) == IF i <= Len(ps) THEN ps[i] ELSE <<>>

\* NameWrites over the parts present only
NameWritesPresent(ns, k, ps) ==
  [i \in 1..Min(k, Len(ps)) |-> WriteEntry("SetStringDynamic", ns[i], BindValue(ps, i))]

\* for i in xrange(max_results): SetStringDynamic(names[i], ...)
NameWrites(ns, k, ps) ==
  [i \in 1..k |-> WriteEntry("SetStringDynamic", ns[i], BindValue(ps, i))]

\* lines 269-280
Bind ==
  /\ pc = "bind"
  /\ mem_log' = IF arg.a # ""
                THEN Append(mem_log, WriteEntry("SetArrayDynamic", arg.a, parts))
                ELSE mem_log \o NameWrites(names, max_results, parts)
  /\ pc' = "done"
  /\ UNCHANGED <<arg, tty, fixedLocals, delimLocals, loopLocals, status, exc, io, cmd,
                 call_pos, hist>>

NextDelim ==
  \/ RunDelimited
  \/ ReadByte \/ ReadFail
  \/ ProcessLine
  \/ AppendStep \/ AppendReturn
  \/ Bind

SpecDelim == InitDelim /\ [][NextDelim]_vars

\* ---- _AppendParts on any span sequences: Run's delimited loop with the line ----
\* ---- reader and the classifier replaced by a free choice of line and spans  ----
InitAssemble ==
  /\ arg \in [n_given : {FALSE}, n : {0}, r : {FALSE}, a : {"", "arr"}, d : {None}]
  /\ names \in NameLists
  /\ stream = <<>>
  /\ isatty = FALSE
  /\ tty = {ICANON, ECHO}
  /\ InitLocals

RECURSIVE SpansUsed(_)
SpansUsed(h) == IF h = <<>> THEN 0 ELSE Len(Last(h).spans) + SpansUsed(ButLast(h))

RECURSIVE CharsUsed(_)
CharsUsed(h) == IF h = <<>> THEN 0 ELSE Len(Last(h).line) + CharsUsed(ButLast(h))

\* the spans whose kinds and text lengths are given by f, one after the other
RECURSIVE SpansOf(_, _)
SpansOf(f, m) ==
  IF m = 0 THEN <<>>
  ELSE LET before == SpansOf(f, m - 1)
           from == IF m = 1 THEN 0 ELSE Last(before)[2]
       IN  Append(before, <<f[m][1], from + f[m][2]>>)

\* A line is read and classified: any spans, each over fresh letters, so that
\* every character handed to _AppendParts in the invocation is distinct.
AsmCall ==
  /\ pc = "readline"
  /\ \E m \in 0..(MaxSpans - SpansUsed(hist)) :
       \E f \in [1..m -> SpanKinds \X (1..MaxSpanLen)] :
         LET sp == SpansOf(f, m)
             len == IF m = 0 THEN 0 ELSE Last(sp)[2]
             from == CharsUsed(hist)
         IN  /\ line' = SubSeq(Letters, from + 1, from + len)
             /\ spans' = sp
  /\ status' = 0
  /\ idx' = 0
  /\ start_index' = 0
  /\ last_span_was_black' = FALSE
  /\ hist' = Append(hist, HistEntry(line', spans', status'))
  /\ pc' = "append"
  /\ UNCHANGED <<arg, tty, fixedLocals, max_results, delim_char, parts, join_next,
                 chars, exc, mem_log, io, cmd, call_pos>>

NextAssemble ==
  \/ RunDelimited
  \/ AsmCall
  \/ AppendStep \/ AppendReturn
  \/ Bind

SpecAssemble == InitAssemble /\ [][NextAssemble]_vars

\* ---- the whole program ----
Init == InitFixed \/ InitDelim
Next == NextFixed \/ NextDelim
Spec == Init /\ [][Next]_vars

\* The interpreter runs Run to its end: a step that can be taken is taken.
SpecLive == Spec /\ WF_vars(Next)

\* ======================= the claims =======================

\* C1: in bounded mode (max_results = k > 0), after every span step of every
\* _AppendParts call of one invocation, continuation lines included,
\* len(parts) <= k, and once len(parts) = k join_next is true.
C1_PartsCapped ==
  (pc # "start" /\ max_results > 0) =>
    /\ Len(parts) <= max_results
    /\ (Len(parts) = max_results => join_next)

\* C1 witness: two names, the cap was reached and a later span of a
\* continuation line was folded into the last field.
C1_Witness ==
  /\ max_results = 2 /\ Len(parts) = 2 /\ join_next
  /\ Len(hist) = 2 /\ pc = "append" /\ idx >= 1
  /\ Len(parts[2]) >= 2

\* C2: read -n on a terminal: when Run has exited, by return or by an
\* exception, the terminal flags are those in effect before the call.
C2_TerminalRestored ==
  (isatty /\ pc \in {"done", "raised"}) => tty = pre.tty

\* C2 witness: a single-byte read raised after canonical mode had been
\* switched off and a byte had been read; the flags are back.
C2_Witness ==
  /\ isatty /\ pc = "raised" /\ exc
  /\ ICANON \in pre.tty /\ ICANON \notin attrs
  /\ read_log # <<>>
  /\ tty = pre.tty

\* C6: read -n N on a non-terminal: never more than N bytes are consumed; on
\* return exactly min(N, bytes before stream end) were consumed, they are
\* bound in order to the first name (REPLY without names) by the only write,
\* and the status is 0.
C6_FixedCount ==
  (arg.n_given /\ ~isatty) =>
    /\ pos <= pre.n
    /\ pos = SumLen(read_log)
    /\ \A i \in 1..Len(read_log) : Len(read_log[i].got) <= read_log[i].n
    /\ (pc = "done" =>
          /\ pos = Min(pre.n, Len(stream))
          /\ status = 0
          /\ mem_log = << [op |-> "SetLocalString",
                           name |-> IF pre.names = <<>> THEN "REPLY" ELSE pre.names[1],
                           value |-> SubSeq(stream, 1, pos)] >>)

\* C6 witness: three bytes asked, the stream ends after two, which arrived in
\* two reads; the third read met the stream end.
C6_Witness ==
  /\ arg.n_given /\ ~isatty /\ pc = "done" /\ status = 0
  /\ pre.n = 3 /\ Len(stream) = 2 /\ Len(read_log) = 3
  /\ Len(mem_log) = 1 /\ mem_log[1].value = stream


\* the bytes consumed by the current call of ReadLineFromStdin
Consumed == SubSeq(stream, call_pos + 1, pos)

\* c is a line terminator: a newline, or the custom delimiter of -d
IsTerminator(c) == c = <<"\n">> \/ c = delim_char

\* C3: the status of a processed line is 0 exactly when the line reader
\* stopped at a terminator (a newline, or the delimiter of -d), and 1 when
\* the stream ended mid-line; either way the text that is split is what was
\* read before the terminator.
C3_StatusIffTerminator ==
  pc = "append" =>
    LET last == Last(read_log).got
    IN  /\ status = 0 <=> IsTerminator(last)
        /\ status = 1 <=> last = <<>>
        /\ line = SubSeq(stream, call_pos + 1, call_pos + Len(line))
        /\ pos = call_pos + Len(line) + Len(last)

\* C3, the failing case: the reader stopped at the delimiter of -d, before
\* the stream end, and the line has status 1.
C3_DelimiterStatusOne ==
  /\ pc = "append"
  /\ delim_char = <<":">> /\ Last(read_log).got = <<":">>
  /\ line = <<"a">> /\ pos < Len(stream)
  /\ status = 1

\* the offset at which span i of sp starts
SpanStart(sp, i) == IF i = 1 THEN 0 ELSE sp[i - 1][2]

EndsInEscape(sp) == sp # <<>> /\ Last(sp)[1] = Backslash

\* the text of line h without its final span
TextBeforeLastSpan(h) == SubSeq(h.line, 1, SpanStart(h.spans, Len(h.spans)))

\* The spans of the line made of h1 without its final span, followed by h2.
\* Where the two meet in Content spans, these are one token of that line.
ConcatSpans(h1, h2) ==
  LET shift == SpanStart(h1.spans, Len(h1.spans))
      left == ButLast(h1.spans)
      right == [i \in 1..Len(h2.spans) |-> <<h2.spans[i][1], h2.spans[i][2] + shift>>]
  IN  IF left # <<>> /\ right # <<>> /\ Last(left)[1] = Black /\ right[1][1] = Black
      THEN ButLast(left) \o right
      ELSE left \o right

ConcatLine(h1, h2) == TextBeforeLastSpan(h1) \o h2.line

\* C4: a line L1 ending in an Escape span followed by a line L2 leaves the
\* parts that a single call leaves on the concatenated line, whose spans are
\* L1 without its final Escape followed by L2 (L2 may begin with any span,
\* a Delimiter included).
C4_ContinuationAsConcatenation ==
  (Len(hist) = 2 /\ pc = "append" /\ idx = Len(spans)) =>
    parts = AppendParts(ConcatLine(hist[1], hist[2]), ConcatSpans(hist[1], hist[2]),
                        max_results, FALSE, <<>>).parts

SpanTypes(sp) == [i \in 1..Len(sp) |-> sp[i][1]]

\* C4, the failing case: L1 is Content, Escape and L2 is Delimiter, Content.
\* The delimiter is glued to the first field; the concatenated line Content,
\* Delimiter, Content gives two fields without it.
C4_DelimiterAfterContinuation ==
  /\ Len(hist) = 2 /\ pc = "append" /\ idx = Len(spans)
  /\ max_results = 0
  /\ SpanTypes(hist[1].spans) = <<Black, Backslash>>
  /\ SpanTypes(hist[2].spans) = <<Delim, Black>>
  /\ parts = << <<"a", "c">>, <<"d">> >>
  /\ AppendParts(ConcatLine(hist[1], hist[2]), ConcatSpans(hist[1], hist[2]),
                 max_results, FALSE, <<>>).parts = << <<"a">>, <<"d">> >>

\* the indices of the Content spans of sp, in order
BlackIndices(sp) == SelectSeq([i \in 1..Len(sp) |-> i], LAMBDA i : sp[i][1] = Black)

\* the text of span i of the line str with spans sp
SpanText(str, sp, i) == SubSeq(str, SpanStart(sp, i) + 1, sp[i][2])

\* C5: max_results = k > 0, one line without Escape spans and with more than
\* k Content spans: parts has k elements, the first k-1 are the first k-1
\* tokens, and the k-th is the text from the start of the k-th token to the
\* end of the last token.
C5_OverflowIntoLastField ==
  LET toks == BlackIndices(spans)
      k == max_results
  IN  (/\ Len(hist) = 1 /\ pc = "append" /\ idx = Len(spans)
       /\ k > 0 /\ Len(toks) > k
       /\ \A i \in 1..Len(spans) : spans[i][1] # Backslash) =>
        /\ Len(parts) = k
        /\ \A i \in 1..(k - 1) : parts[i] = SpanText(line, spans, toks[i])
        /\ parts[k] = SubSeq(line, SpanStart(spans, toks[k]) + 1, spans[Last(toks)][2])

\* C5, the failing case: one name and the line Content, Delimiter, Content,
\* Delimiter: the field ends with the trailing delimiter.
C5_TrailingDelimiterKept ==
  /\ Len(hist) = 1 /\ pc = "append" /\ idx = Len(spans)
  /\ max_results = 1
  /\ SpanTypes(spans) = <<Black, Delim, Black, Delim>>
  /\ parts = << <<"a", "b", "c", "d">> >>


\* C7: delimited mode without -a: when Run returns, the writes to the
\* variable store are one per destination name, in order, of parts[i] where
\* it exists and of the empty str otherwise (REPLY alone without names); on
\* an empty stream the status is 1 and every name gets the empty str.
C7_NamesBound ==
  (~arg.n_given /\ arg.a = "" /\ pc = "done") =>
    LET dest == IF pre.names = <<>> THEN <<"REPLY">> ELSE pre.names
    IN  /\ Len(mem_log) = Len(dest)
        /\ \A i \in 1..Len(dest) :
             /\ mem_log[i].op = "SetStringDynamic"
             /\ mem_log[i].name = dest[i]
             /\ mem_log[i].value = IF i <= Len(parts) THEN parts[i] ELSE <<>>
        /\ (stream = <<>> =>
              /\ status = 1
              /\ \A i \in 1..Len(dest) : mem_log[i].value = <<>>)

\* C7 witness: two names and a line that gave one field: the second name is
\* bound to the empty str.
C7_Witness ==
  /\ ~arg.n_given /\ arg.a = "" /\ pc = "done"
  /\ pre.names = <<"v1", "v2">> /\ Len(parts) = 1 /\ parts[1] # <<>>
  /\ mem_log[1].value = parts[1] /\ mem_log[2].value = <<>>

\* C8: ReadLineFromStdin asks for one byte per read; when it returns it has
\* consumed no terminator but possibly the last byte it read, is at the
\* stream end if its last read was empty, and a consumed newline is the last
\* character of the str it returns.
C8_NoReadPastTerminator ==
  /\ (~arg.n_given => \A i \in 1..Len(read_log) : read_log[i].n = 1)
  /\ (pc = "gotline" =>
        LET last == Last(read_log).got
        IN  /\ \A i \in 1..(Len(Consumed) - 1) : ~IsTerminator(<<Consumed[i]>>)
            /\ IF last = <<>>
               THEN /\ pos = Len(stream)
                    /\ \A i \in 1..Len(Consumed) : ~IsTerminator(<<Consumed[i]>>)
                    /\ line = Consumed
               ELSE /\ Consumed # <<>>
                    /\ last = <<Last(Consumed)>>
                    /\ IsTerminator(last)
                    /\ (last = delim_char => line = ButLast(Consumed))
                    /\ (last # delim_char => line = Consumed /\ Last(line) = "\n"))

\* C8 witness: the call returns at a newline, after two reads, with a byte of
\* the stream still unread.
C8_Witness ==
  /\ pc = "gotline" /\ pos = 2 /\ Len(stream) = 3
  /\ Len(read_log) = 2 /\ Last(read_log).got = <<"\n">>
  /\ line = <<"a", "\n">>

\* C9: lines ending in an Escape span were assembled and then the stream
\* ended, with no further byte or mid-line: Run returns 1, the status of the
\* last line, whatever the status of the earlier lines, and the fields
\* assembled are bound.
C9_StatusOfLastLine ==
  (/\ ~arg.n_given /\ pc = "done"
   /\ hist # <<>> /\ EndsInEscape(hist[1].spans)
   /\ Last(read_log).got = <<>>) =>
    /\ status = 1
    /\ IF arg.a # ""
       THEN mem_log = << [op |-> "SetArrayDynamic", name |-> arg.a, value |-> parts] >>
       ELSE \A i \in 1..Len(parts) : mem_log[i].value = parts[i]
    /\ LET toks == BlackIndices(hist[1].spans)
       IN  toks # <<>> =>
             /\ parts # <<>>
             /\ SubSeq(parts[1], 1, Len(SpanText(hist[1].line, hist[1].spans, toks[1])))
                  = SpanText(hist[1].line, hist[1].spans, toks[1])

\* C9 witness: the first line ended in a newline (status 0) and in an Escape
\* span after a Content span; the stream ended there; Run returns 1 and the
\* field is bound.
C9_Witness ==
  /\ ~arg.n_given /\ pc = "done" /\ arg.a = ""
  /\ Len(hist) = 1 /\ hist[1].status = 0
  /\ SpanTypes(hist[1].spans) = <<Black, Backslash>>
  /\ Last(read_log).got = <<>>
  /\ status = 1
  /\ parts = << <<"a">> >> /\ mem_log[1].value = <<"a">>

\* C10: the loop stops without assembling the line just read only when the
\* line reader met the stream end having read no byte; a first byte that is a
\* terminator gives an empty line, which is processed.
C10_StopOnlyAtStreamEnd ==
  [][(pc = "gotline" /\ pc' = "bind") =>
       (pos = call_pos /\ Last(read_log).got = <<>>)]_vars

\* C10, the failing case: the first byte read is the delimiter of -d, bytes
\* follow it, and the loop has stopped with status 1 and nothing assembled.
C10_DelimiterFirstStops ==
  /\ pc = "bind" /\ hist = <<>> /\ status = 1
  /\ delim_char = <<":">> /\ Len(stream) > 1 /\ stream[1] = ":" /\ pos = 1


\* the texts of the Content spans of a line, in order
BlackTexts(str, sp) ==
  [j \in 1..Len(BlackIndices(sp)) |-> SpanText(str, sp, BlackIndices(sp)[j])]

NoEscape(sp) == \A i \in 1..Len(sp) : sp[i][1] # Backslash

\* C11: when the first _AppendParts call of an invocation (parts empty,
\* join_next false) runs with max_results = 0 on spans holding no Escape
\* span, then at its return parts is exactly the texts of the Content spans
\* in order (no Delimiter text anywhere), join_next is false and done is true.
C11_PlainSplitting ==
  (pc = "append" /\ idx = Len(spans) /\ Len(hist) = 1 /\ max_results = 0
     /\ NoEscape(spans)) =>
    /\ parts = BlackTexts(line, spans)
    /\ ~join_next
    /\ Done(spans)

\* Delimiter, Content, Delimiter, Content, Delimiter has been assembled into
\* two fields.
C11_Witness ==
  /\ pc = "append" /\ idx = Len(spans) /\ Len(hist) = 1 /\ max_results = 0
  /\ SpanTypes(spans) = <<Delim, Black, Delim, Black>>
  /\ parts = <<<<"b">>, <<"d">>>>

\* C12: when _AppendParts returns in delimited mode, Run goes on to read a
\* further line exactly when the spans of the line are non-empty and end in an
\* Escape span; otherwise it leaves the loop for the binding, and no read
\* follows.
C12_ContinueIffFinalEscape ==
  [][/\ (pc = "append" /\ idx = Len(spans)) =>
          /\ (pc' = "readline") <=> EndsInEscape(spans)
          /\ (pc' = "bind") <=> ~EndsInEscape(spans)
     /\ (pc \in {"bind", "done"}) => read_log' = read_log
     /\ (pc' = "readline" /\ pc # "readline") =>
          \/ pc = "start"
          \/ (pc = "append" /\ idx = Len(spans) /\ EndsInEscape(spans))]_vars

\* a line ending in an Escape span has been assembled and a byte of the next
\* line has been read
C12_Witness ==
  /\ pc = "readline" /\ Len(hist) = 1 /\ EndsInEscape(hist[1].spans)
  /\ pos > call_pos /\ call_pos > 0


\* a span step of _AppendParts on a span of the given kind
StepOn(kind) ==
  pc = "append" /\ idx < Len(spans) /\ spans[idx + 1][1] = kind /\ pc' = "append"

\* the kind of the span before the one about to be processed, on the same line
PrevKind == IF idx = 0 THEN "none" ELSE spans[idx][1]

BelowCap == max_results = 0 \/ Len(parts) < max_results

CurText == SpanText(line, spans, idx + 1)

IsSuffix(t, str) == Len(t) <= Len(str) /\ SubSeq(str, Len(str) - Len(t) + 1, Len(str)) = t

\* an Escape step appends nothing and turns join_next on exactly after Content
EscapeStep ==
  StepOn(Backslash) =>
    /\ parts' = parts
    /\ join_next' = (join_next \/ PrevKind = Black)

\* the Content step that follows an Escape below the cap
AfterEscape == StepOn(Black) /\ PrevKind = Backslash /\ BelowCap

JoinedStep ==
  /\ Len(parts') = Len(parts)
  /\ Last(parts') = Last(parts) \o CurText

\* Content, Escape, Content: the second text is joined to the field ending in
\* the first
ContentEscapeContent ==
  (AfterEscape /\ idx >= 2 /\ spans[idx - 1][1] = Black) =>
    /\ JoinedStep
    /\ IsSuffix(SpanText(line, spans, idx - 1), Last(parts))

\* C14 as stated: an Escape span adds no text and sets join_next only after a
\* Content span of the same line; Content, Escape, Content below the cap is one
\* field; after an Escape that is first on its line or follows a Delimiter,
\* the next Content starts a new field.
C14_EscapeFirstStartsNewField ==
  [][/\ EscapeStep
     /\ ContentEscapeContent
     /\ (AfterEscape /\ (idx = 1 \/ (idx >= 2 /\ spans[idx - 1][1] = Delim))) =>
          parts' = Append(parts, CurText)]_vars

\* C14 amended: as stated, except that an Escape first on a continuation line
\* leaves join_next as the line before left it, so the Content after it is
\* joined to the last field when join_next came in true, and starts a new
\* field when it came in false, as it always does on the first line.
C14_EscapeKeepsJoinNext ==
  [][/\ EscapeStep
     /\ ContentEscapeContent
     /\ (AfterEscape /\ idx >= 2 /\ spans[idx - 1][1] = Delim) =>
          parts' = Append(parts, CurText)
     /\ (AfterEscape /\ idx = 1) =>
          /\ IF join_next THEN JoinedStep ELSE parts' = Append(parts, CurText)
          /\ Len(hist) = 1 => ~join_next]_vars

\* Content, Escape on the first line, then Escape, Content on the
\* continuation line: one field
C14_Witness ==
  /\ Len(hist) = 2 /\ max_results = 0
  /\ SpanTypes(hist[1].spans) = <<Black, Backslash>>
  /\ SpanTypes(hist[2].spans) = <<Backslash, Black>>
  /\ pc = "append" /\ idx = 2
  /\ parts = <<<<"a", "d">>>>


\* C15: outside the -n mode on a terminal (delimited mode, or -n with stdin
\* not a terminal) the terminal attributes are never read (orig_attrs and
\* attrs stay unset) nor written (tty stays what it was); in the -n mode on a
\* terminal every read is issued with ICANON off, and ICANON is off for the
\* whole of the read loop.
C15_TerminalTouchedOnlyInTtyFixed ==
  /\ ~(arg.n_given /\ isatty) =>
       (tty = pre.tty /\ orig_attrs = {} /\ attrs = {})
  /\ (arg.n_given /\ isatty) =>
       /\ \A i \in 1..Len(read_log) : ICANON \notin read_log[i].lflag
       /\ pc = "ttyread" => ICANON \notin tty

\* read -n 2 on a canonical terminal has read twice with ICANON off and has
\* put ICANON back
C15_Witness ==
  /\ arg.n_given /\ isatty /\ pc = "done"
  /\ ICANON \in pre.tty /\ tty = pre.tty
  /\ Len(read_log) = 2 /\ read_log[1].lflag = {ECHO} /\ read_log[2].lflag = {ECHO}


\* C16: in the -n mode on a terminal at most N reads are issued, each of one
\* byte, and a read that returns nothing is the last one.
C16_NoReadAfterZeroBytes ==
  (arg.n_given /\ isatty) =>
    /\ Len(read_log) <= pre.n
    /\ \A i \in 1..Len(read_log) : read_log[i].n = 1
    /\ \A i \in 1..(Len(read_log) - 1) : read_log[i].got # <<>>

\* read -n 2 on a terminal whose stream has ended: the first read returns
\* nothing and a second read has been issued
C16_ReadAfterStreamEnd ==
  /\ arg.n_given /\ isatty /\ pre.n = 2 /\ stream = <<>>
  /\ Len(read_log) = 2 /\ read_log[1].got = <<>>


\* C17: with -a the target count is 0, join_next goes from false to true
\* only at an Escape span that follows a Content span (never by the cap), and
\* the only write to memory is one SetArrayDynamic of the whole of parts to the
\* array name, issued by the binding: no name and no REPLY is written.
C17_ArrayBoundWhole ==
  [][(arg.a # "") =>
       /\ (pc' # "start") => max_results' = 0
       /\ (~join_next /\ join_next') => (StepOn(Backslash) /\ PrevKind = Black)
       /\ mem_log' = IF pc' = "done"
                     THEN <<WriteEntry("SetArrayDynamic", arg.a, parts')>>
                     ELSE <<>>]_vars

\* read -a arr v1 has bound three fields to arr and nothing to v1
C17_Witness ==
  /\ arg.a = "arr" /\ names = <<"v1">> /\ pc = "done"
  /\ Len(parts) = 3
  /\ mem_log = <<[op |-> "SetArrayDynamic", name |-> "arr", value |-> parts]>>


IsPrefix(t, str) == Len(t) <= Len(str) /\ SubSeq(str, 1, Len(t)) = t

\* C18: in every step of an invocation, span steps and the passage from one
\* line to the next included, parts keeps its length or gains one element;
\* every element but the last is left as it is; the last either stays or has
\* text appended, and stays when a new element is appended; and parts changes
\* in span steps only.
C18_PartsGrowAtEnd ==
  [][/\ Len(parts) <= Len(parts') /\ Len(parts') <= Len(parts) + 1
     /\ \A i \in 1..(Len(parts) - 1) : parts'[i] = parts[i]
     /\ (Len(parts) > 0) => IsPrefix(parts[Len(parts)], parts'[Len(parts)])
     /\ (Len(parts) > 0 /\ Len(parts') = Len(parts) + 1) =>
          parts'[Len(parts)] = parts[Len(parts)]
     /\ (parts' # parts) => (pc = "append" /\ idx < Len(spans))]_vars

\* Content, Delimiter, Content, Content for two names: the fourth span has
\* been joined to the second field and the first field is as it was
C18_Witness ==
  /\ max_results = 2 /\ pc = "append" /\ idx = 4
  /\ SpanTypes(spans) = <<Black, Delim, Black, Black>>
  /\ parts = <<<<"a">>, <<"c", "d">>>>


\* C19: in every state of an invocation, whatever the spans of its lines and
\* the target count, join_next true implies parts non-empty, and the
\* IndexError of parts[-1] on an empty list is never raised.
C19_JoinNextHasField ==
  /\ join_next => parts # <<>>
  /\ pc # "raised"

\* a continuation line starting with a Delimiter span: its text has been
\* appended to the field of the line before, parts[-1] being there
C19_Witness ==
  /\ Len(hist) = 2 /\ pc = "append" /\ idx = 1
  /\ SpanTypes(hist[1].spans) = <<Delim, Black, Backslash>>
  /\ spans[1][1] = Delim
  /\ parts = <<<<"b", "d">>>> /\ ~join_next


Terminated == pc \in {"done", "raised"}

Remaining == IF arg.n > 0 THEN arg.n ELSE 0

\* What is left to do in the -n mode: the phases still ahead and the count
\* still to be read.
RankFixed ==
  CASE pc = "start" -> 6 + Remaining
    [] pc = "tcgetattr" -> 5 + Remaining
    [] pc = "tcsetattr" -> 4 + Remaining
    [] pc \in {"ttyread", "blockread"} -> 3 + Remaining
    [] pc = "finally" -> 2
    [] pc = "setlocal" -> 1
    [] OTHER -> 0

\* one more than the largest rank inside one iteration of the continuation loop
Weight == 2 * Len(stream) + 5

\* What is left to do in delimited mode: first the bytes not yet consumed when
\* the current iteration of the loop began, then the place in the iteration.
RankDelim ==
  CASE pc = "start" -> Weight * (Len(stream) + 1)
    [] pc = "readline" ->
         Weight * (Len(stream) - call_pos) + (Len(stream) + 4) + (Len(stream) - pos)
    [] pc = "gotline" -> Weight * (Len(stream) - call_pos) + Len(stream) + 3
    [] pc = "append" -> Weight * (Len(stream) - call_pos) + 2 + (Len(spans) - idx)
    [] pc = "bind" -> 1
    [] OTHER -> 0

Rank == IF arg.n_given THEN RankFixed ELSE RankDelim

\* C20: on every finite stream Run comes to its end (returns or raises):
\* every step lowers a rank that is a natural number, a step is possible
\* wherever Run has not ended, an iteration of the continuation loop that
\* goes on to another line has consumed a byte, and each turn of the two -n
\* loops lowers the remaining count or leaves the loop.
C20_Terminates ==
  /\ <>Terminated
  /\ [](Rank \in Nat)
  /\ [](Terminated \/ ENABLED Next)
  /\ [][/\ Rank' < Rank
        /\ (pc = "append" /\ pc' = "readline") => pos > call_pos
        /\ (pc \in {"ttyread", "blockread"}) => (arg.n' < arg.n \/ pc' # pc)]_vars

\* three bytes on two lines have been read, the stream end has been met, and
\* Run has returned
C20_Witness ==
  /\ ~arg.n_given /\ pc = "done" /\ Len(hist) = 2
  /\ pos = 3 /\ Len(read_log) = 4 /\ Last(read_log).got = <<>>

====
